---- MODULE Spec2Model ----
(***************************************************************************)
(* Model of src/main.rs: extract_text_from_docx (the event loop over the   *)
(* markup of word/document.xml) and merge_docx_files (the loop over the    *)
(* paths).                                                                  *)
(*                                                                         *)
(* A string is a sequence of one-character strings.  The raw content of a  *)
(* text node is a sequence of raw units: a literal character, an entity    *)
(* reference ("&amp;", "&#32;") or a bare "&".  The markup of a document   *)
(* is a sequence of tokens (start tag, end tag, empty-element tag, text    *)
(* node); read_event_into turns them into the events of the loop.          *)
(***************************************************************************)
EXTENDS Integers, Sequences, FiniteSets, TLC

\* Bounds of the model.
MaxEvents == 4
MaxDocs == 3

SP == " "
NL == "\n"
AMP == "&"

\* The element names the loop distinguishes: w:instrText and any other.
InstrText == "w:instrText"
OtherName == "w:t"
Names == {InstrText, OtherName}

-----------------------------------------------------------------------------
(* Strings *)

\* char::is_whitespace, as used by str::trim (lines 61, 76).
is_whitespace(c) == c \in {SP, NL}

RECURSIVE trim_start(_)
trim_start(s) ==
    IF s = <<>> THEN s
    ELSE IF is_whitespace(Head(s)) THEN trim_start(Tail(s))
    ELSE s

RECURSIVE trim_end(_)
trim_end(s) ==
    IF s = <<>> THEN s
    ELSE IF is_whitespace(s[Len(s)]) THEN trim_end(SubSeq(s, 1, Len(s) - 1))
    ELSE s

\* str::trim
trim(s) == trim_end(trim_start(s))

\* Reader::trim_text(true), line 24: the reader strips the ASCII whitespace
\* around the raw bytes of a text node, before any unescaping; an entity
\* reference is not whitespace at that level.
trim_text(raw) == trim(raw)

\* BytesText::unescape on one raw unit.
unescape_unit(u) ==
    CASE u = "&amp;" -> AMP
      [] u = "&#32;" -> SP
      [] OTHER -> u

\* BytesText::unescape, line 51: a bare "&" starts no entity reference and is
\* an error; every entity reference is replaced by its character.
unescape(raw) ==
    IF \E k \in 1..Len(raw) : raw[k] = AMP
    THEN [ok |-> FALSE, val |-> <<>>]
    ELSE [ok |-> TRUE, val |-> [k \in 1..Len(raw) |-> unescape_unit(raw[k])]]

-----------------------------------------------------------------------------
(* Markup tokens and the reader *)

StartTok(n) == [k |-> "Start", name |-> n, raw |-> <<>>]
EndTok(n) == [k |-> "End", name |-> n, raw |-> <<>>]
EmptyTok(n) == [k |-> "Empty", name |-> n, raw |-> <<>>]
TextTok(r) == [k |-> "Text", name |-> "", raw |-> r]
EofEv == [k |-> "Eof", name |-> "", raw |-> <<>>]
ErrEv == [k |-> "Err", name |-> "", raw |-> <<>>]

\* The state of the Reader created at line 23: the position in the markup
\* and the names of the elements that are open.
NewReader == [pos |-> 1, stack |-> <<>>]

\* reader.read_event_into(&mut buf), line 32.  A start tag is pushed; an end
\* tag must name the innermost open element, or the reader reports an error;
\* a text node is trimmed and, when nothing is left, skipped; the end of the
\* input is Eof whether or not elements are still open.
RECURSIVE read_event_into(_, _)
read_event_into(tokens, rd) ==
    IF rd.pos > Len(tokens) THEN [ev |-> EofEv, rd |-> rd]
    ELSE
      LET t == tokens[rd.pos]
          adv == [rd EXCEPT !.pos = rd.pos + 1]
      IN CASE t.k = "Start" ->
                [ev |-> t, rd |-> [adv EXCEPT !.stack = Append(rd.stack, t.name)]]
           [] t.k = "End" ->
                IF rd.stack # <<>> /\ rd.stack[Len(rd.stack)] = t.name
                THEN [ev |-> t,
                      rd |-> [adv EXCEPT !.stack = SubSeq(rd.stack, 1, Len(rd.stack) - 1)]]
                ELSE [ev |-> ErrEv, rd |-> adv]
           [] t.k = "Text" ->
                LET c == trim_text(t.raw)
                IN IF c = <<>> THEN read_event_into(tokens, adv)
                   ELSE [ev |-> TextTok(c), rd |-> adv]
           [] OTHER -> [ev |-> t, rd |-> adv]

-----------------------------------------------------------------------------
(* Results *)

Ok(s) == [ok |-> TRUE, val |-> s, err |-> ""]
Err(e) == [ok |-> FALSE, val |-> <<>>, err |-> e]
Pending == [ok |-> FALSE, val |-> <<>>, err |-> "pending"]

\* A source is a path: a file that is no package, a package without
\* word/document.xml, or a package whose word/document.xml holds tokens.
XmlSource(tokens) == [kind |-> "xml", tokens |-> tokens]
NotZip == [kind |-> "notzip", tokens |-> <<>>]
NoEntry == [kind |-> "noentry", tokens |-> <<>>]

\* Lines 17-21: each step of opening the package may fail, and `?` returns
\* the error.
open_document(src) ==
    CASE src.kind = "notzip" -> Err("InvalidArchive")
      [] src.kind = "noentry" -> Err("FileNotFound")
      [] OTHER -> Ok(<<>>)

-----------------------------------------------------------------------------
(* extract_text_from_docx *)

\* The locals of extract_text_from_docx at the top of the loop (lines 23-29).
NewLocals == [rd |-> NewReader, in_instr_text |-> FALSE, text |-> <<>>]

Continue(st) == [ctl |-> "continue", err |-> "", st |-> st]

\* The Text arm without the space after a chunk.
text_arm_no_space(strip, st, raw) ==
    IF strip /\ st.in_instr_text THEN Continue(st)
    ELSE LET u == unescape(raw)
         IN IF ~u.ok THEN [ctl |-> "err", err |-> "Escape", st |-> st]
            ELSE Continue([st EXCEPT !.text = st.text \o u.val])

\* The Text arm skipping only the instruction text that starts with a fixed
\* prefix (here the letter "a"), as the doc comment of lines 10-11 has it.
text_arm_prefix(strip, st, raw) ==
    IF strip /\ st.in_instr_text /\ Head(raw) = "a" THEN Continue(st)
    ELSE LET u == unescape(raw)
         IN IF ~u.ok THEN [ctl |-> "err", err |-> "Escape", st |-> st]
            ELSE Continue([st EXCEPT !.text = st.text \o u.val \o <<SP>>])

\* Lines 45-54: the Text arm.
text_arm(strip, st, raw) ==
    IF strip /\ st.in_instr_text THEN Continue(st)
    ELSE LET u == unescape(raw)
         IN IF ~u.ok THEN [ctl |-> "err", err |-> "Escape", st |-> st]
            ELSE Continue([st EXCEPT !.text = st.text \o u.val \o <<SP>>])

\* The loop without the End arm's reset of the flag.
loop_body_no_reset(tokens, strip, st) ==
    LET r == read_event_into(tokens, st.rd)
        ev == r.ev
        s1 == [st EXCEPT !.rd = r.rd]
    IN CASE ev.k = "Start" ->
              Continue(IF ev.name = InstrText
                       THEN [s1 EXCEPT !.in_instr_text = TRUE] ELSE s1)
         [] ev.k = "Text" -> text_arm(strip, s1, ev.raw)
         [] ev.k = "Eof" -> [ctl |-> "break", err |-> "", st |-> s1]
         [] ev.k = "Err" -> [ctl |-> "err", err |-> "Xml", st |-> s1]
         [] OTHER -> Continue(s1)

\* The loop with a Start arm that sets the flag for every element name.
loop_body_any_name(tokens, strip, st) ==
    LET r == read_event_into(tokens, st.rd)
        ev == r.ev
        s1 == [st EXCEPT !.rd = r.rd]
    IN CASE ev.k = "Start" -> Continue([s1 EXCEPT !.in_instr_text = TRUE])
         [] ev.k = "End" ->
              Continue(IF ev.name = InstrText
                       THEN [s1 EXCEPT !.in_instr_text = FALSE] ELSE s1)
         [] ev.k = "Text" -> text_arm(strip, s1, ev.raw)
         [] ev.k = "Eof" -> [ctl |-> "break", err |-> "", st |-> s1]
         [] ev.k = "Err" -> [ctl |-> "err", err |-> "Xml", st |-> s1]
         [] OTHER -> Continue(s1)

\* Lines 32-59: one iteration of the loop.
loop_body(tokens, strip, st) ==
    LET r == read_event_into(tokens, st.rd)
        ev == r.ev
        s1 == [st EXCEPT !.rd = r.rd]
    IN CASE ev.k = "Start" ->
              Continue(IF ev.name = InstrText
                       THEN [s1 EXCEPT !.in_instr_text = TRUE] ELSE s1)
         [] ev.k = "End" ->
              Continue(IF ev.name = InstrText
                       THEN [s1 EXCEPT !.in_instr_text = FALSE] ELSE s1)
         [] ev.k = "Text" -> text_arm(strip, s1, ev.raw)
         [] ev.k = "Eof" -> [ctl |-> "break", err |-> "", st |-> s1]
         [] ev.k = "Err" -> [ctl |-> "err", err |-> "Xml", st |-> s1]
         [] OTHER -> Continue(s1)

\* The loop returning the text as accumulated, without line 61's trim.
RECURSIVE run_loop_untrimmed(_, _, _)
run_loop_untrimmed(tokens, strip, st) ==
    LET b == loop_body(tokens, strip, st)
    IN CASE b.ctl = "continue" -> run_loop_untrimmed(tokens, strip, b.st)
         [] b.ctl = "break" -> Ok(b.st.text)
         [] OTHER -> Err(b.err)

\* Lines 31-61: the loop to its end, and the return.
RECURSIVE run_loop(_, _, _)
run_loop(tokens, strip, st) ==
    LET b == loop_body(tokens, strip, st)
    IN CASE b.ctl = "continue" -> run_loop(tokens, strip, b.st)
         [] b.ctl = "break" -> Ok(trim(b.st.text))
         [] OTHER -> Err(b.err)

\* Lines 13-62, as a function of the file's content and the flag.
extract_text_from_docx(src, strip) ==
    IF ~open_document(src).ok THEN open_document(src)
    ELSE run_loop(src.tokens, strip, NewLocals)

\* create_test_docx, lines 155-181: a document whose only text run holds the
\* given text, written into the markup as it is.
create_test_docx(s) ==
    XmlSource(<<StartTok(OtherName), TextTok(s), EndTok(OtherName)>>)

-----------------------------------------------------------------------------
(* Inputs *)

RECURSIVE SeqsUpTo(_, _)
SeqsUpTo(S, n) ==
    IF n = 0 THEN {<<>>}
    ELSE LET shorter == SeqsUpTo(S, n - 1)
         IN shorter \cup {Append(s, x) : s \in {q \in shorter : Len(q) = n - 1}, x \in S}

\* Raw contents of text nodes: a letter, an escaped ampersand, an escaped
\* space before a letter, whitespace only, and a bare ampersand.
Texts ==
    { <<"a">>, <<"&amp;">>, <<"&#32;", "a">>, <<SP>>, <<AMP>> }

Tokens ==
    {StartTok(n) : n \in Names} \cup {EndTok(n) : n \in Names}
      \cup {TextTok(r) : r \in Texts}

\* The sources merged under Spec.
DocA == XmlSource(<<StartTok(OtherName), TextTok(<<"a">>), EndTok(OtherName)>>)
DocBlank == XmlSource(<<StartTok(OtherName), TextTok(<<SP>>), EndTok(OtherName)>>)
\* The document of test_strip_hyperlink_instr_text (lines 236-258).
DocLink ==
    XmlSource(<<EmptyTok("w:fldChar"),
                StartTok(InstrText), TextTok(<<"&amp;", SP, "a">>), EndTok(InstrText),
                EmptyTok("w:fldChar"),
                StartTok(OtherName), TextTok(<<"a", SP, "a">>), EndTok(OtherName),
                EmptyTok("w:fldChar")>>)
DocEmptyInstr == XmlSource(<<EmptyTok(InstrText), TextTok(<<"&#32;", "a">>)>>)
DocOpenInstr == XmlSource(<<StartTok(InstrText), TextTok(<<"a">>)>>)
DocMismatch == XmlSource(<<TextTok(<<"a">>), EndTok(OtherName)>>)
DocBareAmp == XmlSource(<<TextTok(<<"a">>), TextTok(<<AMP>>)>>)

MergeSources ==
    {DocA, DocBlank, DocLink, DocEmptyInstr, DocOpenInstr, DocMismatch, DocBareAmp,
     NotZip, NoEntry}

-----------------------------------------------------------------------------
(* merge_docx_files as a state machine *)

VARIABLES
    paths,              \* the argument of merge_docx_files
    strip_hyperlinks,   \* the flag
    pc,                 \* "merge": in the for loop; "scan": inside extract; "done"
    i,                  \* the position of the for loop in paths
    merged_text,        \* line 70
    reader,             \* line 23
    in_instr_text,      \* line 29
    text,               \* line 26
    result,             \* what merge_docx_files returned
    extracted,          \* what each call of extract_text_from_docx returned
    calls               \* how often extract_text_from_docx was called per position

vars == <<paths, strip_hyperlinks, pc, i, merged_text, reader, in_instr_text, text,
          result, extracted, calls>>

InitWith(ps) ==
    /\ paths = ps
    /\ strip_hyperlinks \in BOOLEAN
    /\ pc = "merge"
    /\ i = 1
    /\ merged_text = <<>>
    /\ reader = NewReader
    /\ in_instr_text = FALSE
    /\ text = <<>>
    /\ result = Pending
    /\ extracted = <<>>
    /\ calls = [j \in 1..Len(ps) |-> 0]

Init == \E ps \in SeqsUpTo(MergeSources, MaxDocs) : InitWith(ps)

InitExtract ==
    \E src \in {XmlSource(d) : d \in SeqsUpTo(Tokens, MaxEvents)} \cup {NotZip, NoEntry} :
        InitWith(<<src>>)

\* Line 72, the call: lines 17-21 fail and `?` returns the error from merge.
CallOpenFails ==
    /\ pc = "merge"
    /\ i <= Len(paths)
    /\ ~open_document(paths[i]).ok
    /\ calls' = [calls EXCEPT ![i] = @ + 1]
    /\ extracted' = Append(extracted, open_document(paths[i]))
    /\ result' = open_document(paths[i])
    /\ pc' = "done"
    /\ UNCHANGED <<paths, strip_hyperlinks, i, merged_text, reader, in_instr_text, text>>

\* Line 72, the call: lines 17-29 set up the locals of the extraction.
CallExtract ==
    /\ pc = "merge"
    /\ i <= Len(paths)
    /\ open_document(paths[i]).ok
    /\ calls' = [calls EXCEPT ![i] = @ + 1]
    /\ reader' = NewLocals.rd
    /\ in_instr_text' = NewLocals.in_instr_text
    /\ text' = NewLocals.text
    /\ pc' = "scan"
    /\ UNCHANGED <<paths, strip_hyperlinks, i, merged_text, result, extracted>>

Locals == [rd |-> reader, in_instr_text |-> in_instr_text, text |-> text]

Body == loop_body(paths[i].tokens, strip_hyperlinks, Locals)

\* Lines 31-60: an iteration that goes on to the next event.
ScanStep ==
    /\ pc = "scan"
    /\ Body.ctl = "continue"
    /\ reader' = Body.st.rd
    /\ in_instr_text' = Body.st.in_instr_text
    /\ text' = Body.st.text
    /\ UNCHANGED <<paths, strip_hyperlinks, pc, i, merged_text, result, extracted, calls>>

\* An error of one document is skipped and the loop of merge goes on.
ScanFails_skip ==
    /\ pc = "scan"
    /\ Body.ctl = "err"
    /\ reader' = Body.st.rd
    /\ extracted' = Append(extracted, Err(Body.err))
    /\ i' = i + 1
    /\ pc' = "merge"
    /\ UNCHANGED <<paths, strip_hyperlinks, merged_text, in_instr_text, text, result, calls>>

\* Lines 51 and 56: the iteration returns an error, which `?` at line 72
\* returns from merge.
ScanFails ==
    /\ pc = "scan"
    /\ Body.ctl = "err"
    /\ reader' = Body.st.rd
    /\ extracted' = Append(extracted, Err(Body.err))
    /\ result' = Err(Body.err)
    /\ pc' = "done"
    /\ UNCHANGED <<paths, strip_hyperlinks, i, merged_text, in_instr_text, text, calls>>

\* The text of a document is put in front of the accumulator.
ScanEof_prepend ==
    /\ pc = "scan"
    /\ Body.ctl = "break"
    /\ reader' = Body.st.rd
    /\ extracted' = Append(extracted, Ok(trim(text)))
    /\ merged_text' = trim(text) \o <<NL, NL>> \o merged_text
    /\ i' = i + 1
    /\ pc' = "merge"
    /\ UNCHANGED <<paths, strip_hyperlinks, in_instr_text, text, result, calls>>

\* Lines 55 and 61, then lines 73-74: Eof ends the loop, the trimmed text is
\* returned and merge appends it and the separator.
ScanEof ==
    /\ pc = "scan"
    /\ Body.ctl = "break"
    /\ reader' = Body.st.rd
    /\ extracted' = Append(extracted, Ok(trim(text)))
    /\ merged_text' = merged_text \o trim(text) \o <<NL, NL>>
    /\ i' = i + 1
    /\ pc' = "merge"
    /\ UNCHANGED <<paths, strip_hyperlinks, in_instr_text, text, result, calls>>

\* The accumulator is returned without line 76's trim.
MergeReturn_untrimmed ==
    /\ pc = "merge"
    /\ i > Len(paths)
    /\ result' = Ok(merged_text)
    /\ pc' = "done"
    /\ UNCHANGED <<paths, strip_hyperlinks, i, merged_text, reader, in_instr_text, text,
                   extracted, calls>>

\* Line 76.
MergeReturn ==
    /\ pc = "merge"
    /\ i > Len(paths)
    /\ result' = Ok(trim(merged_text))
    /\ pc' = "done"
    /\ UNCHANGED <<paths, strip_hyperlinks, i, merged_text, reader, in_instr_text, text,
                   extracted, calls>>

Next ==
    \/ CallOpenFails
    \/ CallExtract
    \/ ScanStep
    \/ ScanFails
    \/ ScanEof
    \/ MergeReturn

Spec == Init /\ [][Next]_vars

SpecExtract == InitExtract /\ [][Next]_vars

-----------------------------------------------------------------------------
(* Vocabulary of the properties *)

Done == pc = "done"

\* x occurs in s as a contiguous run of characters.
IsSubstr(x, s) == \E k \in 0..(Len(s) - Len(x)) : SubSeq(s, k + 1, k + Len(x)) = x

IsTextAt(d, k) == d[k].k = "Text"

\* The content of the text node at k: trimmed by the reader, then unescaped.
Content(d, k) == unescape(trim_text(d[k].raw))

\* The text node at k reaches the loop as a Text event.
IsChunk(d, k) == IsTextAt(d, k) /\ trim_text(d[k].raw) # <<>>

\* How many w:instrText elements are open in front of token k.
RECURSIVE InstrDepth(_, _)
InstrDepth(d, k) ==
    IF k <= 1 THEN 0
    ELSE InstrDepth(d, k - 1)
           + (IF d[k - 1] = StartTok(InstrText) THEN 1
              ELSE IF d[k - 1] = EndTok(InstrText) THEN -1 ELSE 0)

\* The names of the elements open after the first k tokens, or <<"!">> when
\* an end tag among them matches no open element.
RECURSIVE OpenAfter(_, _)
OpenAfter(d, k) ==
    IF k = 0 THEN <<>>
    ELSE LET o == OpenAfter(d, k - 1)
         IN CASE o = <<"!">> -> o
              [] d[k].k = "Start" -> Append(o, d[k].name)
              [] d[k].k = "End" ->
                   IF o # <<>> /\ o[Len(o)] = d[k].name
                   THEN SubSeq(o, 1, Len(o) - 1) ELSE <<"!">>
              [] OTHER -> o

\* Every end tag closes the innermost open element and no element is left open.
Balanced(d) == OpenAfter(d, Len(d)) = <<>>

\* A w:instrText element starts inside another one.
Nested(d) == \E k \in 1..Len(d) : d[k] = StartTok(InstrText) /\ InstrDepth(d, k) > 0

\* No tag of the document names w:instrText.
NoInstr(src) == \A k \in 1..Len(src.tokens) : src.tokens[k].name # InstrText

\* The last w:instrText tag in front of token k is a start tag.
FlagAt(d, k) ==
    \E j \in 1..(k - 1) :
        /\ d[j] = StartTok(InstrText)
        /\ \A m \in (j + 1)..(k - 1) : d[m] # EndTok(InstrText)

\* The document without the text nodes that lie inside a w:instrText element.
RECURSIVE VisibleUpTo(_, _)
VisibleUpTo(d, k) ==
    IF k = 0 THEN <<>>
    ELSE IF IsTextAt(d, k) /\ InstrDepth(d, k) > 0 THEN VisibleUpTo(d, k - 1)
    ELSE Append(VisibleUpTo(d, k - 1), d[k])

Visible(d) == VisibleUpTo(d, Len(d))

\* A chunk is accepted unless stripping is on and the flag is set when it is read.
Accepted(d, f, k) == IsChunk(d, k) /\ ~(f /\ FlagAt(d, k))

\* The accepted chunks from token k on, each unescaped and followed by a space.
RECURSIVE AcceptedFrom(_, _, _)
AcceptedFrom(d, f, k) ==
    IF k > Len(d) THEN <<>>
    ELSE (IF Accepted(d, f, k) THEN Content(d, k).val \o <<SP>> ELSE <<>>)
           \o AcceptedFrom(d, f, k + 1)

\* The calls of extract_text_from_docx that returned a text.
Extracted == {j \in 1..Len(extracted) : extracted[j].ok}

-----------------------------------------------------------------------------
(* Properties of extract_text_from_docx, checked under SpecExtract *)

Thm_C3 ==
    \A j \in 1..Len(extracted) :
        NoInstr(paths[j])
            => extracted[j] = extract_text_from_docx(paths[j], ~strip_hyperlinks)

\* A document of ordinary text runs only was extracted to a text.
Wit_C3 ==
    /\ Done /\ result.ok /\ NoInstr(paths[1]) /\ Balanced(paths[1].tokens)
    /\ \E k \in 2..Len(paths[1].tokens) :
          paths[1].tokens[k - 1] = StartTok(OtherName) /\ IsChunk(paths[1].tokens, k)
    /\ extracted[1].val # <<>>

CE_C8 ==
    \A j \in Extracted : \A g \in BOOLEAN :
        extract_text_from_docx(create_test_docx(extracted[j].val), g)
            = Ok(extracted[j].val)

\* C8 as amended: the same, for an extracted text without the character "&".
Thm_C8 ==
    \A j \in Extracted :
        (\A k \in 1..Len(extracted[j].val) : extracted[j].val[k] # AMP)
            => \A g \in BOOLEAN :
                  extract_text_from_docx(create_test_docx(extracted[j].val), g)
                      = Ok(extracted[j].val)

\* A text of two chunks, one with an escaped space, was extracted and is
\* extracted again to itself.
Wit_C8 ==
    /\ Done /\ result.ok
    /\ Len(extracted[1].val) >= 3
    /\ \A k \in 1..Len(extracted[1].val) : extracted[1].val[k] # AMP
    /\ \E k \in 1..Len(paths[1].tokens) : paths[1].tokens[k].raw = <<"&#32;", "a">>
    /\ extract_text_from_docx(create_test_docx(extracted[1].val), strip_hyperlinks)
          = Ok(extracted[1].val)

\* The source is no package, lacks the markup part, or holds markup whose
\* elements are not properly closed.
Invalid(src) == src.kind # "xml" \/ ~Balanced(src.tokens)

\* C7 as stated: extraction of an invalid input returns an error, never a
\* text.
CE_C7 ==
    \A j \in 1..Len(extracted) :
        Invalid(paths[j]) => ~extracted[j].ok

-----------------------------------------------------------------------------
(* Properties of merge_docx_files, checked under Spec *)

\* The next event of the scan is Eof.
AtStreamEnd == read_event_into(paths[i].tokens, reader).ev.k = "Eof"

\* C10 as stated: during an extraction the flag is set only between a start
\* tag of w:instrText and its end tag; it is clear at the start of every
\* stream and at its end.
CE_C10 ==
    pc = "scan" =>
        /\ in_instr_text => InstrDepth(paths[i].tokens, reader.pos) > 0
        /\ reader.pos = 1 => ~in_instr_text
        /\ AtStreamEnd => ~in_instr_text

\* What extract_text_from_docx returns for the source at position j alone.
Alone(j) == extract_text_from_docx(paths[j], strip_hyperlinks)

AllValid == \A j \in 1..Len(paths) : Alone(j).ok

\* The texts of the sources from position j on, two newlines between them.
RECURSIVE JoinFrom(_)
JoinFrom(j) ==
    IF j > Len(paths) THEN <<>>
    ELSE Alone(j).val \o (IF j < Len(paths) THEN <<NL, NL>> ELSE <<>>) \o JoinFrom(j + 1)

\* Every source is a package whose markup is well-formed.
AllBalanced == \A j \in 1..Len(paths) : ~Invalid(paths[j])

NoOuterWhitespace(s) == s = <<>> \/ (~is_whitespace(s[1]) /\ ~is_whitespace(s[Len(s)]))

\* C4: merge of valid documents returns their texts in the order of the
\* input, each as extracted alone with the same flag; for two documents the
\* result is trim(extract(a) + "\n\n" + extract(b)).
Thm_C4 ==
    /\ \A j \in 1..Len(extracted) : extracted[j] = Alone(j)
    /\ Done /\ AllValid
          => /\ result = Ok(trim(JoinFrom(1)))
             /\ Len(paths) = 2
                   => result.val = trim(Alone(1).val \o <<NL, NL>> \o Alone(2).val)

\* Two different documents with text were merged, and one of them once more.
Wit_C4 ==
    /\ Done /\ result.ok /\ Len(paths) = 3 /\ AllBalanced
    /\ paths[1] # paths[2] /\ paths[3] = paths[1]
    /\ Alone(1).val # <<>> /\ Alone(2).val # <<>>
    /\ Alone(1).val # Alone(2).val

\* C5 as stated: the texts of consecutive documents are separated by exactly
\* two newlines and the result has no whitespace around it, also when a
\* document's text is empty (well-formed documents).
CE_C5 ==
    Done /\ result.ok /\ AllBalanced
        => /\ result.val = JoinFrom(1)
           /\ NoOuterWhitespace(result.val)

\* C5 as amended: the result has no whitespace around it, and the texts are
\* separated by exactly two newlines when the first and the last of them are
\* not empty.
Thm_C5 ==
    Done /\ result.ok
        => /\ NoOuterWhitespace(result.val)
           /\ (Len(paths) > 0 /\ Alone(1).val # <<>> /\ Alone(Len(paths)).val # <<>>)
                 => result.val = JoinFrom(1)

\* Three documents were merged, the one in the middle with an empty text.
Wit_C5 ==
    /\ Done /\ result.ok /\ Len(paths) = 3 /\ AllBalanced
    /\ Alone(1).val # <<>> /\ Alone(2).val = <<>> /\ Alone(3).val # <<>>
    /\ result.val = Alone(1).val \o <<NL, NL, NL, NL>> \o Alone(3).val

SomeFails == \E j \in 1..Len(paths) : ~Alone(j).ok

\* The first position whose source fails to extract.
FirstFail == CHOOSE j \in 1..Len(paths) : ~Alone(j).ok /\ \A m \in 1..(j - 1) : Alone(m).ok

\* C6: merge returns the error of the first source that fails, extracts no
\* source after it, calls no extraction twice and returns no text.
Thm_C6 ==
    /\ \A j \in 1..Len(paths) : calls[j] <= 1
    /\ Done /\ SomeFails
          => /\ ~result.ok /\ result.val = <<>>
             /\ result = Alone(FirstFail)
             /\ i = FirstFail
             /\ \A j \in 1..Len(paths) : calls[j] = (IF j <= FirstFail THEN 1 ELSE 0)

\* The second of three sources failed after the first gave a text, and the
\* third, which is valid, was not extracted.
Wit_C6 ==
    /\ Done /\ ~result.ok /\ Len(paths) = 3 /\ i = 2
    /\ merged_text # <<>> /\ result.val = <<>>
    /\ ~Invalid(paths[1]) /\ ~Invalid(paths[3])
    /\ Alone(3).ok /\ calls[3] = 0

====
